---------------------------- MODULE Spec2Model ----------------------------
(***************************************************************************)
(* Model of the xorwowgen crate: the xorwow generators of src/src/lib.rs   *)
(* (32-bit words), src/src/xorwow64.rs (one 64-bit word plus counter) and  *)
(* src/src/xorwow128.rs (two 64-bit words plus counter).                   *)
(*                                                                         *)
(* A machine word of width w is the set of its set bit positions, a subset *)
(* of 0..w-1, so that no value exceeds what TLC's integers can hold:       *)
(* ^ is the symmetric difference, << and >> move positions and drop what   *)
(* leaves the word, ! is the complement and wrapping_add is a ripple-carry *)
(* addition that drops the carry out of bit w-1.                           *)
(*                                                                         *)
(* A state array [uN; nr] is a function on 0..nr-1 (the source's indices). *)
(***************************************************************************)
EXTENDS Integers, Sequences, FiniteSets

(***************************************************************************)
(* Bounds of the model.                                                    *)
(***************************************************************************)
\* facade calls (next_u32, next_u64, fill_bytes) applied after seeding
MaxCalls == 3
\* integer seeds 0..MaxSeed are tried besides the documented seeds
MaxSeed == 3
\* next_u32 calls of a run observed for repeated states
RunLen == 128

(***************************************************************************)
(* Program constants.                                                      *)
(***************************************************************************)
\* lib.rs:181, the increment of the modulo 2^32 counter
WeylIncrement32 == 362437
\* lib.rs:17, the clocks of the crate's documented example before its check
KatClocks == 100

(***************************************************************************)
(* Machine words.                                                          *)
(***************************************************************************)
Pow2(k) == 2 ^ k

\* the word holding the natural number n (n < 2^31)
FromNat(n) == {i \in 0..30 : (n \div Pow2(i)) % 2 = 1}

\* a hexadecimal literal, most significant digit first
Hex(digits) ==
    UNION {{4 * (Len(digits) - k) + j : j \in {b \in 0..3 : (digits[k] \div Pow2(b)) % 2 = 1}}
           : k \in 1..Len(digits)}

\* long division by two of a decimal digit sequence (most significant first)
RECURSIVE HalveDigits(_, _, _)
HalveDigits(digits, k, rem) ==
    IF k > Len(digits) THEN <<>>
    ELSE LET cur == 10 * rem + digits[k]
         IN <<cur \div 2>> \o HalveDigits(digits, k + 1, cur % 2)

\* a decimal literal, most significant digit first, as a word of width w
RECURSIVE DecBits(_, _, _)
DecBits(digits, i, w) ==
    IF i = w THEN {}
    ELSE (IF digits[Len(digits)] % 2 = 1 THEN {i} ELSE {})
         \cup DecBits(HalveDigits(digits, 1, 0), i + 1, w)

Dec(digits, w) == DecBits(digits, 0, w)

\* u32::MAX, u64::MAX
MaxWord(w) == 0..(w - 1)

\* a ^ b
bitxor(a, b) == (a \ b) \cup (b \ a)

\* !a
not(a, w) == (0..(w - 1)) \ a

\* a << k in a word of width w
shl(a, k, w) == {i + k : i \in {j \in a : j + k < w}}

\* a >> k
shr(a, k) == {i - k : i \in {j \in a : j >= k}}

\* a as u32
as_u32(a) == {i \in a : i < 32}

\* a.wrapping_add(b) in a word of width w: the sum without carries is a ^ b and
\* the carries are (a & b) << 1, added in turn until none is left; a carry out of
\* bit w-1 is dropped by the shift
RECURSIVE wrapping_add(_, _, _)
wrapping_add(a, b, w) ==
    IF b = {} THEN a
    ELSE wrapping_add(bitxor(a, b), shl(a \cap b, 1, w), w)

\* the $mod of a variant applied to two words
Combine(mod, a, b, w) ==
    IF mod = "wrapping_add" THEN wrapping_add(a, b, w) ELSE bitxor(a, b)

\* the increment of the modulo 2^64 counter, 0x587CC7F5F9DD5
WeylIncrement64 == Hex(<<5, 8, 7, 12, 12, 7, 15, 5, 15, 9, 13, 13, 5>>)

(***************************************************************************)
(* The variants: the instantiations of impl_xorwow!, impl_xorwow64! and    *)
(* impl_xorwow128!.                                                        *)
(***************************************************************************)
\* impl_xorwow!(XorwowXor96, wrapping_add, ...): the XOR variant instantiated with
\* the combine of its addition twin
Params_miswired(name) ==
    CASE name = "Xorwow96"     -> [kind |-> "xorwow", mod |-> "wrapping_add", nr |-> 4, w |-> 32, shift |-> <<10, 5, 26>>]
      [] name = "Xorwow128"    -> [kind |-> "xorwow", mod |-> "wrapping_add", nr |-> 5, w |-> 32, shift |-> <<5, 14, 1>>]
      [] name = "Xorwow160"    -> [kind |-> "xorwow", mod |-> "wrapping_add", nr |-> 6, w |-> 32, shift |-> <<2, 1, 4>>]
      [] name = "XorwowXor96"  -> [kind |-> "xorwow", mod |-> "wrapping_add", nr |-> 4, w |-> 32, shift |-> <<10, 5, 26>>]
      [] name = "XorwowXor128" -> [kind |-> "xorwow", mod |-> "bitxor", nr |-> 5, w |-> 32, shift |-> <<5, 14, 1>>]
      [] name = "XorwowXor160" -> [kind |-> "xorwow", mod |-> "bitxor", nr |-> 6, w |-> 32, shift |-> <<2, 1, 4>>]
      [] name = "WrapA"        -> [kind |-> "xorwow64", mod |-> "wrapping_add", nr |-> 2, w |-> 64, shift |-> <<13, 7, 17>>]
      [] name = "WrapB"        -> [kind |-> "xorwow64", mod |-> "wrapping_add", nr |-> 2, w |-> 64, shift |-> <<13, 19, 28>>]
      [] name = "XorA"         -> [kind |-> "xorwow64", mod |-> "bitxor", nr |-> 2, w |-> 64, shift |-> <<13, 7, 17>>]
      [] name = "XorB"         -> [kind |-> "xorwow64", mod |-> "bitxor", nr |-> 2, w |-> 64, shift |-> <<13, 19, 28>>]
      [] name = "LargeWrap"    -> [kind |-> "xorwow128", mod |-> "wrapping_add", nr |-> 3, w |-> 64, shift |-> <<23, 17, 26>>]
      [] name = "LargeXor"     -> [kind |-> "xorwow128", mod |-> "bitxor", nr |-> 3, w |-> 64, shift |-> <<23, 17, 26>>]

Params(name) ==
    CASE name = "Xorwow96"     -> [kind |-> "xorwow", mod |-> "wrapping_add", nr |-> 4, w |-> 32, shift |-> <<10, 5, 26>>]
      [] name = "Xorwow128"    -> [kind |-> "xorwow", mod |-> "wrapping_add", nr |-> 5, w |-> 32, shift |-> <<5, 14, 1>>]
      [] name = "Xorwow160"    -> [kind |-> "xorwow", mod |-> "wrapping_add", nr |-> 6, w |-> 32, shift |-> <<2, 1, 4>>]
      [] name = "XorwowXor96"  -> [kind |-> "xorwow", mod |-> "bitxor", nr |-> 4, w |-> 32, shift |-> <<10, 5, 26>>]
      [] name = "XorwowXor128" -> [kind |-> "xorwow", mod |-> "bitxor", nr |-> 5, w |-> 32, shift |-> <<5, 14, 1>>]
      [] name = "XorwowXor160" -> [kind |-> "xorwow", mod |-> "bitxor", nr |-> 6, w |-> 32, shift |-> <<2, 1, 4>>]
      [] name = "WrapA"        -> [kind |-> "xorwow64", mod |-> "wrapping_add", nr |-> 2, w |-> 64, shift |-> <<13, 7, 17>>]
      [] name = "WrapB"        -> [kind |-> "xorwow64", mod |-> "wrapping_add", nr |-> 2, w |-> 64, shift |-> <<13, 19, 28>>]
      [] name = "XorA"         -> [kind |-> "xorwow64", mod |-> "bitxor", nr |-> 2, w |-> 64, shift |-> <<13, 7, 17>>]
      [] name = "XorB"         -> [kind |-> "xorwow64", mod |-> "bitxor", nr |-> 2, w |-> 64, shift |-> <<13, 19, 28>>]
      [] name = "LargeWrap"    -> [kind |-> "xorwow128", mod |-> "wrapping_add", nr |-> 3, w |-> 64, shift |-> <<23, 17, 26>>]
      [] name = "LargeXor"     -> [kind |-> "xorwow128", mod |-> "bitxor", nr |-> 3, w |-> 64, shift |-> <<23, 17, 26>>]

\* the wrapping_add and the bitxor variant of each register configuration
Pairs ==
    { <<"Xorwow96", "XorwowXor96">>, <<"Xorwow128", "XorwowXor128">>,
      <<"Xorwow160", "XorwowXor160">>, <<"WrapA", "XorA">>, <<"WrapB", "XorB">>,
      <<"LargeWrap", "LargeXor">> }

(***************************************************************************)
(* src/src/lib.rs: impl_xorwow!, 32-bit words.                             *)
(***************************************************************************)
\* the shift directions of the first two lines exchanged
transform_swapped(x, y, shift) ==
    LET x1 == bitxor(x, shl(x, shift[1], 32))
        x2 == bitxor(x1, shr(x1, shift[2]))
    IN bitxor(x2, bitxor(y, shl(y, shift[3], 32)))

\* x ^= x >> $shift.0; x ^= x << $shift.1; x ^= y ^ (y << $shift.2)
transform(x, y, shift) ==
    LET x1 == bitxor(x, shr(x, shift[1]))
        x2 == bitxor(x1, shl(x1, shift[2], 32))
    IN bitxor(x2, bitxor(y, shl(y, shift[3], 32)))

\* the clock computed on a copy of the array: self.s is left as it was
clock_on_copy(s, nr, shift) == s

clock(s, nr, shift) ==
    LET x == s[nr - 2]
        y == s[0]
    IN [i \in 0..(nr - 1) |->
          IF i = nr - 1 THEN wrapping_add(s[nr - 1], FromNat(WeylIncrement32), 32)
          ELSE IF i = 0 THEN transform(x, y, shift)
          ELSE IF i = 1 THEN y
          ELSE s[i - 1]]

return_u32(s, mod, nr, shift) ==
    LET t == clock(s, nr, shift)
    IN [s |-> t, val |-> Combine(mod, t[0], t[nr - 1], 32)]

\* the 64 bits built from two return_u32 calls
return_u64_two_clocks(s, mod, nr, shift) ==
    LET t == clock(s, nr, shift)
        u == clock(t, nr, shift)
        be == Combine(mod, t[0], t[nr - 1], 32)
        le == Combine(mod, u[0], u[nr - 1], 32)
    IN [s |-> u, val |-> shl(be, 32, 64) \cup le]

return_u64(s, mod, nr, shift) ==
    LET t == clock(s, nr, shift)
        be == Combine(mod, t[1], t[nr - 1], 32)
        le == Combine(mod, t[0], t[nr - 1], 32)
    IN [s |-> t, val |-> shl(be, 32, 64) \cup le]

dump_state(s) == s

(***************************************************************************)
(* src/src/xorwow64.rs: impl_xorwow64!, one 64-bit word and the counter.   *)
(***************************************************************************)
\* s ^= s << $shift.0; s ^= s >> $shift.1; s ^= s << $shift.2
transform_xorwow64(x, shift) ==
    LET x1 == bitxor(x, shl(x, shift[1], 64))
        x2 == bitxor(x1, shr(x1, shift[2]))
    IN bitxor(x2, shl(x2, shift[3], 64))

clock_xorwow64(s, shift) ==
    [i \in 0..1 |->
        IF i = 0 THEN transform_xorwow64(s[0], shift)
        ELSE wrapping_add(s[1], WeylIncrement64, 64)]

return_u32_xorwow64(s, mod, shift) ==
    LET t == clock_xorwow64(s, shift)
    IN [s |-> t, val |-> as_u32(Combine(mod, t[0], t[1], 64))]

return_u64_xorwow64(s, mod, shift) ==
    LET t == clock_xorwow64(s, shift)
    IN [s |-> t, val |-> Combine(mod, t[0], t[1], 64)]

(***************************************************************************)
(* src/src/xorwow128.rs: impl_xorwow128!, two 64-bit words and the counter.*)
(***************************************************************************)
\* a ^= a << $shift.0; a ^= a >> $shift.1; a ^= b ^ (b >> $shift.2)
transform_xorwow128(a, b, shift) ==
    LET a1 == bitxor(a, shl(a, shift[1], 64))
        a2 == bitxor(a1, shr(a1, shift[2]))
    IN bitxor(a2, bitxor(b, shr(b, shift[3])))

clock_xorwow128(s, shift) ==
    LET a == s[0]
        b == s[1]
    IN [i \in 0..2 |->
          IF i = 0 THEN b
          ELSE IF i = 1 THEN transform_xorwow128(a, b, shift)
          ELSE wrapping_add(s[2], WeylIncrement64, 64)]

return_u32_xorwow128(s, mod, shift) ==
    LET t == clock_xorwow128(s, shift)
    IN [s |-> t, val |-> as_u32(Combine(mod, t[0], t[2], 64))]

\* the word the clock has just transformed, s[1], combined with the counter
return_u64_xorwow128_new_word(s, mod, shift) ==
    LET t == clock_xorwow128(s, shift)
    IN [s |-> t, val |-> Combine(mod, t[1], t[2], 64)]

return_u64_xorwow128(s, mod, shift) ==
    LET t == clock_xorwow128(s, shift)
    IN [s |-> t, val |-> Combine(mod, t[0], t[2], 64)]

(***************************************************************************)
(* Seeding: impl_seedable! of the three files.  A seed buffer [u8; n] is a *)
(* function on 0..n-1 with values in 0..255.                               *)
(***************************************************************************)
\* rand_core::le::read_u32_into / read_u64_into: word i of width w is read from
\* the w/8 bytes at i*(w/8), least significant byte first
read_into(seed, nr, w) ==
    [i \in 0..(nr - 1) |->
        UNION {{8 * k + j : j \in {b \in 0..7 : (seed[i * (w \div 8) + k] \div Pow2(b)) % 2 = 1}}
               : k \in 0..((w \div 8) - 1)}]

\* the all_zero check run over the whole array, the counter included
from_seed_whole_array(seed, nr) ==
    LET state == read_into(seed, nr, 32)
        all_zero == \A i \in 0..(nr - 1) : state[i] = {}
    IN IF all_zero
       THEN [i \in 0..(nr - 1) |-> IF i < nr - 1 THEN MaxWord(32) ELSE state[i]]
       ELSE state

\* lib.rs
from_seed(seed, nr) ==
    LET state == read_into(seed, nr, 32)
        all_zero == \A i \in 0..(nr - 2) : state[i] = {}
    IN IF all_zero
       THEN [i \in 0..(nr - 1) |-> IF i < nr - 1 THEN MaxWord(32) ELSE state[i]]
       ELSE state

\* the expansion run over the whole array, the counter included
seed_from_u64_whole_array(seed, nr) ==
    LET be == as_u32(shr(seed, 32))
        le == as_u32(seed)
    IN [i \in 0..(nr - 1) |->
          CASE i % 4 = 0 -> le
            [] i % 4 = 1 -> not(le, 32)
            [] i % 4 = 2 -> be
            [] OTHER     -> not(be, 32)]

\* lib.rs
seed_from_u64(seed, nr) ==
    LET be == as_u32(shr(seed, 32))
        le == as_u32(seed)
    IN [i \in 0..(nr - 1) |->
          IF i < nr - 1
          THEN CASE i % 4 = 0 -> le
                 [] i % 4 = 1 -> not(le, 32)
                 [] i % 4 = 2 -> be
                 [] OTHER     -> not(be, 32)
          ELSE {}]

\* xorwow64.rs
from_seed_xorwow64(seed) ==
    LET state == read_into(seed, 2, 64)
    IN IF state[0] = {} THEN [state EXCEPT ![0] = MaxWord(64)] ELSE state

\* state[1] = !seed
seed_from_u64_xorwow64_complement(seed) ==
    [i \in 0..1 |->
        IF i = 0 THEN (IF seed = {} THEN MaxWord(64) ELSE seed)
        ELSE not(seed, 64)]

\* xorwow64.rs
seed_from_u64_xorwow64(seed) ==
    [i \in 0..1 |->
        IF i = 0 THEN (IF seed = {} THEN MaxWord(64) ELSE seed)
        ELSE seed]

\* xorwow128.rs
from_seed_xorwow128(seed) ==
    LET state == read_into(seed, 3, 64)
    IN IF state[0] = {} /\ state[1] = {}
       THEN [state EXCEPT ![0] = MaxWord(64), ![1] = MaxWord(64)]
       ELSE state

\* state[0] = seed without the check for a zero seed
seed_from_u64_xorwow128_unchecked(seed) ==
    [i \in 0..2 |->
        IF i = 0 THEN seed
        ELSE IF i = 1 THEN seed
        ELSE not(seed, 64)]

\* xorwow128.rs
seed_from_u64_xorwow128(seed) ==
    [i \in 0..2 |->
        IF i = 0 THEN (IF seed = {} THEN MaxWord(64) ELSE seed)
        ELSE IF i = 1 THEN seed
        ELSE not(seed, 64)]

(***************************************************************************)
(* The trait surface of a variant: SeedableRng and RngCore (impl_core!).   *)
(***************************************************************************)
\* the length of the variant's Seed type: $nr * 4, 16, 24
SeedLen(name) == Params(name).nr * (Params(name).w \div 8)

FromSeed(name, seed) ==
    LET p == Params(name)
    IN CASE p.kind = "xorwow"    -> from_seed(seed, p.nr)
         [] p.kind = "xorwow64"  -> from_seed_xorwow64(seed)
         [] p.kind = "xorwow128" -> from_seed_xorwow128(seed)

SeedFromU64(name, seed) ==
    LET p == Params(name)
    IN CASE p.kind = "xorwow"    -> seed_from_u64(seed, p.nr)
         [] p.kind = "xorwow64"  -> seed_from_u64_xorwow64(seed)
         [] p.kind = "xorwow128" -> seed_from_u64_xorwow128(seed)

\* the private clock of the variant
Clock(name, s) ==
    LET p == Params(name)
    IN CASE p.kind = "xorwow"    -> clock(s, p.nr, p.shift)
         [] p.kind = "xorwow64"  -> clock_xorwow64(s, p.shift)
         [] p.kind = "xorwow128" -> clock_xorwow128(s, p.shift)

next_u32(name, s) ==
    LET p == Params(name)
    IN CASE p.kind = "xorwow"    -> return_u32(s, p.mod, p.nr, p.shift)
         [] p.kind = "xorwow64"  -> return_u32_xorwow64(s, p.mod, p.shift)
         [] p.kind = "xorwow128" -> return_u32_xorwow128(s, p.mod, p.shift)

next_u64(name, s) ==
    LET p == Params(name)
    IN CASE p.kind = "xorwow"    -> return_u64(s, p.mod, p.nr, p.shift)
         [] p.kind = "xorwow64"  -> return_u64_xorwow64(s, p.mod, p.shift)
         [] p.kind = "xorwow128" -> return_u64_xorwow128(s, p.mod, p.shift)

\* the first n bytes of value.to_le_bytes()
to_le_bytes(value, n) ==
    [k \in 1..n |->
        LET bits == {j \in 0..7 : 8 * (k - 1) + j \in value}
        IN (IF 0 \in bits THEN 1 ELSE 0) + (IF 1 \in bits THEN 2 ELSE 0)
         + (IF 2 \in bits THEN 4 ELSE 0) + (IF 3 \in bits THEN 8 ELSE 0)
         + (IF 4 \in bits THEN 16 ELSE 0) + (IF 5 \in bits THEN 32 ELSE 0)
         + (IF 6 \in bits THEN 64 ELSE 0) + (IF 7 \in bits THEN 128 ELSE 0)]

\* rand_core::impls::fill_bytes_via_next: next_u64 for every 8 bytes, then
\* next_u64 for a rest of more than 4 bytes and next_u32 for a shorter one
RECURSIVE fill_bytes_via_next(_, _, _, _)
fill_bytes_via_next(name, s, left, filled) ==
    IF left >= 8
    THEN LET r == next_u64(name, s)
         IN fill_bytes_via_next(name, r.s, left - 8, filled \o to_le_bytes(r.val, 8))
    ELSE IF left > 4
    THEN LET r == next_u64(name, s)
         IN [s |-> r.s, dest |-> filled \o to_le_bytes(r.val, left)]
    ELSE IF left > 0
    THEN LET r == next_u32(name, s)
         IN [s |-> r.s, dest |-> filled \o to_le_bytes(r.val, left)]
    ELSE [s |-> s, dest |-> filled]

fill_bytes(name, s, len) == fill_bytes_via_next(name, s, len, <<>>)

(***************************************************************************)
(* Inputs.                                                                 *)
(***************************************************************************)
\* the seeds of the crate's documented examples and benches
DocSeeds ==
    { Dec(<<1,2,3,4>>, 64), Dec(<<4,3,2,1>>, 64), Dec(<<9,8,7,6,5,4,3,2,1>>, 64),
      Dec(<<9,8,7,6,5,4,3,2,1,4,3,2,1>>, 64), Dec(<<1,2,3,4,5,6,7,8,9,8,7,6,5>>, 64) }

\* 0..MaxSeed, the documented seeds, 2^32 (low half zero) and u64::MAX
SeedsU64 ==
    {FromNat(n) : n \in 0..MaxSeed} \cup DocSeeds
        \cup {Hex(<<1, 0,0,0,0, 0,0,0,0>>), MaxWord(64)}

SeedByteValues == {1, 255}

\* the all-zero buffer, the buffers with one non-zero byte, and 1, 2, ..., n
SeedBuffers(n) ==
    LET zero == [i \in 0..(n - 1) |-> 0]
    IN {zero} \cup {[zero EXCEPT ![q] = v] : q \in 0..(n - 1), v \in SeedByteValues}
              \cup {[i \in 0..(n - 1) |-> i + 1]}

\* the lengths of the dest buffers handed to fill_bytes
FillLens == {0, 3, 5, 12}

(***************************************************************************)
(* The state machine: the wrapping_add and the bitxor variant of one       *)
(* register configuration, seeded with the same seed and driven by the     *)
(* same calls.                                                             *)
(***************************************************************************)
VARIABLES
    names,    \* the pair of variants
    seed,     \* how they were seeded: [via, value]
    rng,      \* rng[name]: the variant's state array s
    ret,      \* ret[name]: the value its last next_u32 / next_u64 returned
    dest,     \* dest[name]: the bytes its last fill_bytes wrote
    op,       \* the last call
    calls,    \* calls since seeding
    visited   \* visited[name]: the states the generator was in after each call

vars == <<names, seed, rng, ret, dest, op, calls, visited>>

Both == {names[1], names[2]}

Seeded(pair, sd, states) ==
    /\ names = pair
    /\ seed = sd
    /\ rng = states
    /\ ret = [n \in {pair[1], pair[2]} |-> {}]
    /\ dest = [n \in {pair[1], pair[2]} |-> <<>>]
    /\ op = "seed"
    /\ calls = 0
    /\ visited = [n \in {pair[1], pair[2]} |-> {dump_state(states[n])}]

InitFromSeed ==
    \E pair \in Pairs : \E b \in SeedBuffers(SeedLen(pair[1])) :
        Seeded(pair, [via |-> "from_seed", value |-> b],
               [n \in {pair[1], pair[2]} |-> FromSeed(n, b)])

InitSeedFromU64 ==
    \E pair \in Pairs : \E x \in SeedsU64 :
        Seeded(pair, [via |-> "seed_from_u64", value |-> x],
               [n \in {pair[1], pair[2]} |-> SeedFromU64(n, x)])

Init == InitFromSeed \/ InitSeedFromU64

\* the value a takes for the first and b for the second variant of the pair
Of(a, b) == [n \in Both |-> IF n = names[1] THEN a ELSE b]

\* a call of the facade came back from both generators with r1 and r2
Called(name, r1, r2) ==
    /\ op' = name
    /\ calls' = calls + 1
    /\ rng' = Of(r1.s, r2.s)
    /\ visited' = Of(visited[names[1]] \cup {dump_state(r1.s)},
                     visited[names[2]] \cup {dump_state(r2.s)})
    /\ UNCHANGED <<names, seed>>

NextU32 ==
    \E r1 \in {next_u32(names[1], rng[names[1]])},
       r2 \in {next_u32(names[2], rng[names[2]])} :
        /\ Called("next_u32", r1, r2)
        /\ ret' = Of(r1.val, r2.val)
        /\ UNCHANGED dest

NextU64 ==
    \E r1 \in {next_u64(names[1], rng[names[1]])},
       r2 \in {next_u64(names[2], rng[names[2]])} :
        /\ Called("next_u64", r1, r2)
        /\ ret' = Of(r1.val, r2.val)
        /\ UNCHANGED dest

FillBytes ==
    \E len \in FillLens :
        \E r1 \in {fill_bytes(names[1], rng[names[1]], len)},
           r2 \in {fill_bytes(names[2], rng[names[2]], len)} :
            /\ Called("fill_bytes", r1, r2)
            /\ dest' = Of(r1.dest, r2.dest)
            /\ UNCHANGED ret

Next ==
    \/ calls < MaxCalls /\ NextU32
    \/ calls < MaxCalls /\ NextU64
    \/ calls < MaxCalls /\ FillBytes

Spec == Init /\ [][Next]_vars

(***************************************************************************)
(* A run of next_u32 calls alone, from every seed.                         *)
(***************************************************************************)
NextRun == calls < RunLen /\ NextU32

SpecRun == Init /\ [][NextRun]_vars

(***************************************************************************)
(* The example of the crate documentation (lib.rs, lines 8-22):            *)
(* Xorwow160::seed_from_u64(1234), 100 next_u32 calls, then one more.      *)
(***************************************************************************)
InitKAT ==
    LET pair == <<"Xorwow160", "XorwowXor160">>
        x == Dec(<<1,2,3,4>>, 64)
    IN Seeded(pair, [via |-> "seed_from_u64", value |-> x],
              [n \in {pair[1], pair[2]} |-> SeedFromU64(n, x)])

NextKAT == calls <= KatClocks /\ NextU32

SpecKAT == InitKAT /\ [][NextKAT]_vars

(***************************************************************************)
(* Properties.                                                             *)
(***************************************************************************)
\* the seed of a state seeded by seed_from_u64, and its halves
SeededFromU64 == seed.via = "seed_from_u64"
SeededFromBytes == seed.via = "from_seed"
SeedLo == {b \in seed.value : b < 32}
SeedHi == {b - 32 : b \in {c \in seed.value : c >= 32}}
Low32(v) == {b \in v : b < 32}

\* C1: the non-counter words of a generator are not all zero, right after
\* from_seed (the all-zero buffer included) and seed_from_u64 (seed 0 included)
\* and after every sequence of next_u32, next_u64 and fill_bytes calls.
C1_NonDegenerate ==
    \A n \in Both : \E i \in 0..(Params(n).nr - 2) : rng[n][i] # {}

\* generators seeded from the all-zero buffer or the seed 0, after calls that
\* end with a fill_bytes
C1_Witness ==
    /\ calls >= 2
    /\ op = "fill_bytes"
    /\ \/ SeededFromU64 /\ seed.value = {}
       \/ SeededFromBytes /\ \A q \in DOMAIN seed.value : seed.value[q] = 0

\* the word the expansion of seed_from_u64 puts at index i of a [u32; nr]
C3_Expected(i) ==
    CASE i % 4 = 0 -> SeedLo
      [] i % 4 = 1 -> (0..31) \ SeedLo
      [] i % 4 = 2 -> SeedHi
      [] i % 4 = 3 -> (0..31) \ SeedHi

C3_Case == op = "seed" /\ SeededFromU64 /\ Params(names[1]).w = 32

\* C3 as stated: for the 32-bit-word variants seed_from_u64(seed) returns a state
\* in which every word at index i, the counter word at index R-1 included,
\* equals lo, NOT lo, hi, NOT hi for i mod 4 = 0, 1, 2, 3.
C3_Original ==
    C3_Case =>
        \A n \in Both : \A i \in 0..(Params(n).nr - 1) : rng[n][i] = C3_Expected(i)

\* C3 as amended: for the 32-bit-word variants seed_from_u64(seed) returns a
\* state in which every register word at index i < R-1 equals lo, NOT lo, hi,
\* NOT hi for i mod 4 = 0, 1, 2, 3, and the counter word at index R-1 is 0.
C3_Amended ==
    C3_Case =>
        \A n \in Both :
            /\ \A i \in 0..(Params(n).nr - 2) : rng[n][i] = C3_Expected(i)
            /\ rng[n][Params(n).nr - 1] = {}

\* a 6-word state seeded from a seed whose halves differ and are not zero
C3_Witness ==
    /\ C3_Case
    /\ Params(names[1]).nr = 6
    /\ SeedLo # {} /\ SeedHi # {} /\ SeedLo # SeedHi

C4_Case == op = "seed" /\ SeededFromU64 /\ Params(names[1]).w = 64

\* C4 as stated: for the 64-bit-word variants seed_from_u64(seed) returns a state
\* with word 0 equal to seed (u64::MAX when seed is 0), the second register
\* word, when present, equal to seed, and the counter word equal to NOT seed.
C4_Original ==
    C4_Case =>
        \A n \in Both :
            /\ rng[n][0] = (IF seed.value = {} THEN 0..63 ELSE seed.value)
            /\ Params(n).nr = 3 => rng[n][1] = seed.value
            /\ rng[n][Params(n).nr - 1] = (0..63) \ seed.value

\* C4 as amended: word 0 equals seed (u64::MAX when seed is 0); in the 3-word
\* variants the second register word equals seed and the counter word equals
\* NOT seed; in the 2-word variants the counter word equals seed.
C4_Amended ==
    C4_Case =>
        \A n \in Both :
            /\ rng[n][0] = (IF seed.value = {} THEN 0..63 ELSE seed.value)
            /\ Params(n).nr = 3 => /\ rng[n][1] = seed.value
                                   /\ rng[n][2] = (0..63) \ seed.value
            /\ Params(n).nr = 2 => rng[n][1] = seed.value

\* a 2-word generator seeded with 0
C4_Witness ==
    /\ C4_Case
    /\ Params(names[1]).nr = 2
    /\ seed.value = {}

\* word i of width w of the seed buffer, its bytes taken least significant first
C5_Decoded(i, w) ==
    {b \in 0..(w - 1) : (seed.value[i * (w \div 8) + (b \div 8)] \div Pow2(b % 8)) % 2 = 1}

C5_Case == op = "seed" /\ SeededFromBytes

\* C5: from_seed decodes the buffer as R little-endian words; exactly when all
\* R-1 non-counter words are zero it replaces each of them with the all-ones
\* word; otherwise the register words are the decoded words; the counter word
\* is always the decoded last word.
C5_FromSeed ==
    C5_Case =>
        \A n \in Both :
            LET nr == Params(n).nr
                w == Params(n).w
                all_zero == \A i \in 0..(nr - 2) : C5_Decoded(i, w) = {}
            IN /\ \A i \in 0..(nr - 2) :
                    rng[n][i] = (IF all_zero THEN 0..(w - 1) ELSE C5_Decoded(i, w))
               /\ rng[n][nr - 1] = C5_Decoded(nr - 1, w)

\* a buffer whose register words are zero and whose counter word is not
C5_Witness ==
    /\ C5_Case
    /\ LET nr == Params(names[1]).nr
           w == Params(names[1]).w
       IN /\ \A i \in 0..(nr - 2) : C5_Decoded(i, w) = {}
          /\ C5_Decoded(nr - 1, w) # {}
          /\ rng[names[1]][0] = 0..(w - 1)

\* C6: next_u32 and next_u64 each advance the state by exactly one clock, so
\* both leave the same state behind, and the value of next_u32 is the low 32
\* bits of the value next_u64 returns from the same state.
C6_OneClock ==
    [][op' \in {"next_u32", "next_u64"} =>
        \A n \in Both :
            LET r32 == next_u32(n, rng[n])
                r64 == next_u64(n, rng[n])
            IN /\ rng'[n] = Clock(n, rng[n])
               /\ r32.s = rng'[n]
               /\ r64.s = rng'[n]
               /\ r32.val = Low32(r64.val)
               /\ ret'[n] = (IF op' = "next_u32" THEN r32.val ELSE r64.val)]_vars

\* a next_u64 call that followed another call
C6_Witness == op = "next_u64" /\ calls >= 2 /\ ret[names[1]] # {}

\* C7: Xorwow160 seeded with seed_from_u64(1234) and advanced by 100 next_u32
\* calls returns 2581263997 from the 101st.
C7_KnownAnswer ==
    (names[1] = "Xorwow160" /\ calls = KatClocks + 1 /\ op = "next_u32")
        => ret["Xorwow160"] = Dec(<<2,5,8,1,2,6,3,9,9,7>>, 32)

C7_Witness ==
    /\ names[1] = "Xorwow160"
    /\ SeededFromU64 /\ seed.value = Dec(<<1,2,3,4>>, 64)
    /\ calls = KatClocks + 1
    /\ op = "next_u32"

\* C8: the full states (register words and counter) a generator is in after
\* seeding and after each of its first next_u32 calls are pairwise distinct.
C8_Distinct ==
    \A n \in Both : Cardinality(visited[n]) = calls + 1

C8_Witness == calls >= RunLen /\ op = "next_u32"

\* C9 as stated: the addition and the XOR variant of a register configuration,
\* seeded with the same seed, return different values from every next_u32,
\* the first included, while their states stay equal.
C9_Original ==
    op = "next_u32" =>
        /\ rng[names[1]] = rng[names[2]]
        /\ ret[names[1]] # ret[names[2]]

\* C9 as amended: their states stay equal, and the values their next_u32
\* returns differ exactly when register[0] and the counter, as the clock of
\* that call left them, share a set bit among bits 0..30.
C9_Amended ==
    op = "next_u32" =>
        /\ rng[names[1]] = rng[names[2]]
        /\ (ret[names[1]] # ret[names[2]])
             <=> (\E b \in 0..30 :
                     /\ b \in rng[names[1]][0]
                     /\ b \in rng[names[1]][Params(names[1]).nr - 1])

\* a first next_u32 on which the two variants differ
C9_Witness ==
    /\ op = "next_u32"
    /\ calls = 1
    /\ ret[names[1]] # ret[names[2]]

\* the word the xorshift transform of the variant produces from state s
NewWord(n, s) ==
    LET p == Params(n)
    IN CASE p.kind = "xorwow"    -> transform(s[p.nr - 2], s[0], p.shift)
         [] p.kind = "xorwow64"  -> transform_xorwow64(s[0], p.shift)
         [] p.kind = "xorwow128" -> transform_xorwow128(s[0], s[1], p.shift)

\* C10: in every variant the clock stores the word newly produced by the
\* transform into register[0], and the value next_u32 / next_u64 returns (its
\* low 32 bits, but all 64 bits of next_u64 in a 64-bit-word variant) is the
\* combine of that word with the counter after its increment.
C10_NewWordReturned ==
    [][op' \in {"next_u32", "next_u64"} =>
        \A n \in Both :
            LET p == Params(n)
                new == NewWord(n, rng[n])
                expected == Combine(p.mod, new, rng'[n][p.nr - 1], p.w)
            IN /\ rng'[n][0] = new
               /\ IF p.w = 64 /\ op' = "next_u64"
                  THEN ret'[n] = expected
                  ELSE Low32(ret'[n]) = Low32(expected)]_vars

\* 0x587CC7F5F9DD5 - 1
C11_Constant == Hex(<<5, 8, 7, 12, 12, 7, 15, 5, 15, 9, 13, 13, 4>>)

C11_Case == names[1] = "LargeWrap" /\ SeededFromU64 /\ calls = 1

\* C11: the first next_u64 of LargeWrap after seed_from_u64(seed) returns
\* 0x587CC7F5F9DD5 - 1 for every seed, the word it combines being the seed
\* itself, untransformed, and the counter NOT seed plus the increment; the
\* first next_u32 returns the low 32 bits of that constant.
C11_FirstOutputConstant ==
    C11_Case =>
        /\ op = "next_u64" =>
              /\ rng["LargeWrap"][0] = seed.value
              /\ rng["LargeWrap"][2] = wrapping_add((0..63) \ seed.value, WeylIncrement64, 64)
              /\ ret["LargeWrap"] = C11_Constant
        /\ op = "next_u32" => ret["LargeWrap"] = {b \in C11_Constant : b < 32}

\* the first next_u64 of LargeWrap after a seed with bits in both halves
C11_Witness ==
    /\ C11_Case
    /\ op = "next_u64"
    /\ SeedLo # {} /\ SeedHi # {}
    /\ ret["LargeWrap"] = C11_Constant

=============================================================================
